---- MODULE Spec2Model ----
(***************************************************************************)
(* Model of src/server.js: the multi-tenant "negocios" REST API.  The      *)
(* state is the Firestore document store (the tenant documents and their   *)
(* six subcollections), the commit clock, the position of the one          *)
(* multi-step handler (tenant deletion) and the last handler              *)
(* step taken (a request, or one store call of the deletion) together with *)
(* the last response sent.  Every other handler makes one store call and   *)
(* is one atomic action.  The files of the storage bucket are the state of *)
(* the two image routes.                                                   *)
(***************************************************************************)
EXTENDS Integers, Sequences, FiniteSets, TLC

VARIABLES negocios, sub, archivos, now, del, deleted, last, resp

vars == <<negocios, sub, archivos, now, del, deleted, last, resp>>

----------------------------------------------------------------------------
(* Bounds *)

\* The commit clock stops here: every stamping write takes one tick.
MaxTime == 3

----------------------------------------------------------------------------
(* Values *)

SUPER_ADMIN_KEY == "Thulu@1971"

\* JavaScript undefined, for a request field that is not supplied.
Undefined == "undefined"

\* The document IDs Math.random / Firestore auto-ID can produce, in order.
NegocioIDs == <<"neg_a", "neg_b">>

DocIDs == <<"d1", "d2">>

collections == <<"productos", "servicios", "testimonios", "casosExito", "galeria", "pedidos">>

Range(s) == {s[i] : i \in DOMAIN s}

Kinds == Range(collections)

\* The subcollections whose list handler orders by 'orden'.
OrdenKinds == {"servicios", "testimonios", "casosExito", "galeria"}

EmptyDoc == <<>>

Rank(seq, x) == CHOOSE i \in DOMAIN seq : seq[i] = x

\* The elements of set S that occur in seq, in seq's order.
InOrder(seq, S) == SelectSeq(seq, LAMBDA x : x \in S)

----------------------------------------------------------------------------
(* Strings are sequences of characters where the code looks inside them *)

LOWER == <<"a","b","c","d","e","f","g","h","i","j","k","l","m",
           "n","o","p","q","r","s","t","u","v","w","x","y","z">>

UPPER == <<"A","B","C","D","E","F","G","H","I","J","K","L","M",
           "N","O","P","Q","R","S","T","U","V","W","X","Y","Z">>

DIGITS == <<"0","1","2","3","4","5","6","7","8","9">>

\* String.prototype.toLowerCase, one character.
toLowerCase(c) ==
    IF c \in Range(UPPER) THEN LOWER[Rank(UPPER, c)]
    ELSE IF c = "É" THEN "é"
    ELSE c

\* Number.prototype.toString for a non-negative integer.
RECURSIVE numToString(_)
numToString(n) ==
    IF n < 10 THEN <<DIGITS[n + 1]>>
    ELSE numToString(n \div 10) \o <<DIGITS[(n % 10) + 1]>>

\* Date.now() as a string: milliseconds since 1970, thirteen digits for any
\* date from 2001 to 2286.  The clock gives the last digit.
DateNowString(t) ==
    <<"1","7","9","0","0","0","0","0","0","0","0","0">> \o numToString(t % 10)

UserSlugSinCorte(nombreNegocio) ==
    LET low == [i \in DOMAIN nombreNegocio |-> toLowerCase(nombreNegocio[i])]
    IN  SelectSeq(low, LAMBDA c : c \in Range(LOWER) \cup Range(DIGITS))

\* nombreNegocio.toLowerCase().replace(/[^a-z0-9]/g, '').substring(0, 10)
\*   || 'user' + Date.now()
UserSlug(nombreNegocio) ==
    LET low  == [i \in DOMAIN nombreNegocio |-> toLowerCase(nombreNegocio[i])]
        kept == SelectSeq(low, LAMBDA c : c \in Range(LOWER) \cup Range(DIGITS))
    IN  SubSeq(kept, 1, IF Len(kept) < 10 THEN Len(kept) ELSE 10)

DeriveUser(nombreNegocio, dateNow) ==
    IF UserSlug(nombreNegocio) # <<>> THEN UserSlug(nombreNegocio)
    ELSE <<"u","s","e","r">> \o DateNowString(dateNow)

----------------------------------------------------------------------------
(* The document store *)

ReplaceFields(old, datos, t) ==
    [f \in DOMAIN datos \cup {"updatedAt"} |-> IF f = "updatedAt" THEN t ELSE datos[f]]

MergeFieldsProtegido(old, datos, t) ==
    [f \in DOMAIN old \cup DOMAIN datos \cup {"updatedAt"} |->
        IF f = "updatedAt" THEN t
        ELSE IF f \in DOMAIN datos /\ ~(f \in {"admin", "activo"} /\ f \in DOMAIN old)
        THEN datos[f]
        ELSE old[f]]

\* DocumentReference.update / the spread { ...datos, updatedAt }: the fields
\* of datos replace the stored ones, updatedAt is the commit time, every
\* other stored field stays.
MergeFields(old, datos, t) ==
    [f \in DOMAIN old \cup DOMAIN datos \cup {"updatedAt"} |->
        IF f = "updatedAt" THEN t
        ELSE IF f \in DOMAIN datos THEN datos[f]
        ELSE old[f]]

\* { ...body, f1: v1 }: the body with one field set last.
WithField(body, f, v) ==
    [g \in DOMAIN body \cup {f} |-> IF g = f THEN v ELSE body[g]]

WithoutAndFirst(fn, S) == [x \in DOMAIN fn \ (S \cup {DocIDs[1]}) |-> fn[x]]

\* A function without the keys in S (document deletion).
Without(fn, S) == [x \in DOMAIN fn \ S |-> fn[x]]

Put(fn, k, v) == [x \in DOMAIN fn \cup {k} |-> IF x = k THEN v ELSE fn[x]]

Exists(n) == n \in DOMAIN negocios

ColeccionPrimera(negocioID, kind) == sub[NegocioIDs[1]][kind]

\* db.collection('negocios').doc(negocioID).collection(kind), as read.
Coleccion(negocioID, kind) == sub[negocioID][kind]

R(status, body) == [status |-> status, body |-> body]

Req(op, nid, kind, id, datos, cred) ==
    [op |-> op, nid |-> nid, kind |-> kind, id |-> id, datos |-> datos, cred |-> cred]

Idle == [pc |-> "idle", nid |-> "-", k |-> 0, snap |-> {}]

----------------------------------------------------------------------------
(* Super admin guard *)

Truthy(v) == v \notin {Undefined, ""}

\* req.query.superAdminKey || req.body.superAdminKey || req.headers[...]
SuppliedKey(cred) ==
    IF Truthy(cred.q) THEN cred.q
    ELSE IF Truthy(cred.b) THEN cred.b
    ELSE cred.h

validarSuperAdminMissingOnly(cred) == Truthy(SuppliedKey(cred))

\* TRUE when next() is called, FALSE when the guard answers 401.
validarSuperAdmin(cred) ==
    ~ (~Truthy(SuppliedKey(cred)) \/ SuppliedKey(cred) # SUPER_ADMIN_KEY)

Resp401 == R(401, [error |-> "No autorizado - Clave de Super Admin inválida"])

----------------------------------------------------------------------------
(* Super admin: tenants *)

\* The projection of GET /api/super-admin/negocios for one document.
Proyeccion(id, data) ==
    [id |-> id,
     negocioID |-> id,
     nombreNegocio |-> IF "nombre" \in DOMAIN data /\ data.nombre # <<>>
                       THEN data.nombre ELSE <<"Sin nombre">>,
     user |-> IF "admin" \in DOMAIN data /\ "user" \in DOMAIN data.admin
                 /\ data.admin.user # <<>>
              THEN data.admin.user ELSE <<"N/A">>,
     pin |-> IF "admin" \in DOMAIN data /\ "pin" \in DOMAIN data.admin
                /\ data.admin.pin # ""
             THEN data.admin.pin ELSE "N/A",
     activo |-> ~ ("activo" \in DOMAIN data /\ data.activo = FALSE),
     briefCompletado |-> IF "briefCompletado" \in DOMAIN data
                         THEN data.briefCompletado ELSE FALSE]

SA_List(cred) ==
    /\ last' = Req("sa_list", "-", "-", "-", EmptyDoc, cred)
    /\ resp' = IF validarSuperAdmin(cred)
               THEN LET ids == InOrder(NegocioIDs, DOMAIN negocios)
                    IN  R(200, [negocios |->
                                  [i \in DOMAIN ids |-> Proyeccion(ids[i], negocios[ids[i]])]])
               ELSE Resp401
    /\ UNCHANGED <<negocios, sub, now, del, deleted, archivos>>

seccionesDefault ==
    [hero |-> TRUE, servicios |-> TRUE, nosotros |-> TRUE, casosExito |-> TRUE,
     testimonios |-> TRUE, galeria |-> TRUE, contacto |-> TRUE]

NuevoNegocioInactivo(nombreNegocio, email, user, pin, t) ==
    [nombre |-> nombreNegocio,
     admin |-> [user |-> user, pin |-> pin, email |-> email],
     seccionesActivas |-> seccionesDefault,
     activo |-> FALSE,
     briefCompletado |-> FALSE,
     createdAt |-> t]

\* The document POST /api/super-admin/negocios writes.
NuevoNegocio(nombreNegocio, email, user, pin, t) ==
    [nombre |-> nombreNegocio,
     slogan |-> "Los mejores productos al mejor precio",
     admin |-> [user |-> user, pin |-> pin, email |-> email],
     colores |-> [primario |-> "#667eea", secundario |-> "#10B981"],
     contacto |-> [telefono |-> "", whatsapp |-> "", email |-> email, direccion |-> "",
                   redesSociales |-> [facebook |-> "", instagram |-> ""]],
     contenido |-> [sobreNosotros |-> "Somos una empresa dedicada a ofrecer los mejores productos.",
                    mision |-> "", vision |-> ""],
     seccionesActivas |-> seccionesDefault,
     activo |-> TRUE,
     briefCompletado |-> FALSE,
     createdAt |-> t]

SA_CreateValidaPrimero(cred, nombreNegocio, email, negocioID, pin) ==
    /\ last' = Req("sa_create", "-", "-", "-",
                   [nombreNegocio |-> nombreNegocio, email |-> email], cred)
    /\ IF nombreNegocio = <<>> \/ email = ""
       THEN /\ resp' = R(400, [error |-> "Faltan datos requeridos: nombreNegocio y email"])
            /\ UNCHANGED <<negocios, sub, now, del, deleted, archivos>>
       ELSE IF ~validarSuperAdmin(cred)
       THEN /\ resp' = Resp401
            /\ UNCHANGED <<negocios, sub, now, del, deleted, archivos>>
       ELSE /\ now < MaxTime
            /\ LET user == DeriveUser(nombreNegocio, now)
               IN  /\ negocios' = Put(negocios, negocioID,
                                      NuevoNegocio(nombreNegocio, email, user, pin, now))
                   /\ resp' = R(200, [success |-> TRUE, negocioID |-> negocioID,
                                      negocio |-> [negocioID |-> negocioID, user |-> user,
                                                   pin |-> pin, nombreNegocio |-> nombreNegocio,
                                                   email |-> email]])
            /\ now' = now + 1
            /\ deleted' = deleted \ {negocioID}
            /\ UNCHANGED <<sub, del, archivos>>

\* negocioID and pin are the two Math.random draws.
SA_Create(cred, nombreNegocio, email, negocioID, pin) ==
    /\ last' = Req("sa_create", "-", "-", "-",
                   [nombreNegocio |-> nombreNegocio, email |-> email], cred)
    /\ IF ~validarSuperAdmin(cred)
       THEN /\ resp' = Resp401
            /\ UNCHANGED <<negocios, sub, now, del, deleted, archivos>>
       ELSE IF nombreNegocio = <<>> \/ email = ""
       THEN /\ resp' = R(400, [error |-> "Faltan datos requeridos: nombreNegocio y email"])
            /\ UNCHANGED <<negocios, sub, now, del, deleted, archivos>>
       ELSE /\ now < MaxTime
            /\ LET user == DeriveUser(nombreNegocio, now)
               IN  /\ negocios' = Put(negocios, negocioID,
                                      NuevoNegocio(nombreNegocio, email, user, pin, now))
                   /\ resp' = R(200, [success |-> TRUE, negocioID |-> negocioID,
                                      negocio |-> [negocioID |-> negocioID, user |-> user,
                                                   pin |-> pin, nombreNegocio |-> nombreNegocio,
                                                   email |-> email]])
            /\ now' = now + 1
            /\ deleted' = deleted \ {negocioID}
            /\ UNCHANGED <<sub, del, archivos>>

RespNotFoundUpdate == R(500, [error |-> "5 NOT_FOUND: No document to update"])

RespUndefinedValue == R(500, [error |-> "Cannot use undefined as a Firestore value"])

UpdateNegocioSet(negocioID, datos, okBody) ==
    IF ~Exists(negocioID)
    THEN /\ resp' = RespNotFoundUpdate
         /\ UNCHANGED <<negocios, sub, now, del, deleted, archivos>>
    ELSE /\ now < MaxTime
         /\ negocios' = [negocios EXCEPT ![negocioID] = WithField(datos, "updatedAt", now)]
         /\ now' = now + 1
         /\ resp' = R(200, okBody)
         /\ UNCHANGED <<sub, del, deleted, archivos>>

\* The shared body of the three tenant-document updates: DocumentReference.update
\* rejects when the document does not exist, and the catch answers 500.
UpdateNegocio(negocioID, datos, okBody) ==
    IF ~Exists(negocioID)
    THEN /\ resp' = RespNotFoundUpdate
         /\ UNCHANGED <<negocios, sub, now, del, deleted, archivos>>
    ELSE /\ now < MaxTime
         /\ negocios' = [negocios EXCEPT ![negocioID] = MergeFields(@, datos, now)]
         /\ now' = now + 1
         /\ resp' = R(200, okBody)
         /\ UNCHANGED <<sub, del, deleted, archivos>>

\* const datos = req.body: a key sent in the body is one of its fields.
SA_UpdateBody(cred, datos) ==
    IF cred.b = Undefined THEN datos ELSE WithField(datos, "superAdminKey", cred.b)

SA_Update(cred, negocioID, datos) ==
    /\ last' = Req("sa_update", negocioID, "-", "-", SA_UpdateBody(cred, datos), cred)
    /\ IF ~validarSuperAdmin(cred)
       THEN /\ resp' = Resp401
            /\ UNCHANGED <<negocios, sub, now, del, deleted, archivos>>
       ELSE UpdateNegocio(negocioID, SA_UpdateBody(cred, datos), [success |-> TRUE])

\* DELETE /api/super-admin/negocios/:negocioID, up to the loop: the guard,
\* then the handler starts on collections[1].
SA_DeleteStart(cred, negocioID) ==
    /\ del.pc = "idle"
    /\ last' = Req("sa_delete", negocioID, "-", "-", EmptyDoc, cred)
    /\ IF ~validarSuperAdmin(cred)
       THEN /\ resp' = Resp401
            /\ del' = del
       ELSE /\ resp' = R(0, EmptyDoc)
            /\ del' = [pc |-> "get", nid |-> negocioID, k |-> 1, snap |-> {}]
    /\ UNCHANGED <<negocios, sub, now, deleted, archivos>>

\* await ...collection(collectionName).get()
DelGet ==
    /\ del.pc = "get"
    /\ del' = [del EXCEPT !.pc = "commit", !.snap = DOMAIN Coleccion(del.nid, collections[del.k])]
    /\ last' = Req("sa_delete_get", del.nid, collections[del.k], "-", EmptyDoc, "-")
    /\ UNCHANGED <<negocios, sub, now, deleted, resp, archivos>>

DelCommitVacio ==
    /\ del.pc = "commit"
    /\ del' = IF del.k < Len(collections)
              THEN [del EXCEPT !.pc = "get", !.k = @ + 1, !.snap = {}]
              ELSE [del EXCEPT !.pc = "deldoc", !.snap = {}]
    /\ last' = Req("sa_delete_commit", del.nid, collections[del.k], "-", EmptyDoc, "-")
    /\ UNCHANGED <<negocios, sub, now, deleted, resp, archivos>>

\* await batch.commit(): every document of the snapshot is deleted, whether
\* or not it still exists.
DelCommit ==
    /\ del.pc = "commit"
    /\ sub' = [sub EXCEPT ![del.nid][collections[del.k]] = Without(@, del.snap)]
    /\ del' = IF del.k < Len(collections)
              THEN [del EXCEPT !.pc = "get", !.k = @ + 1, !.snap = {}]
              ELSE [del EXCEPT !.pc = "deldoc", !.snap = {}]
    /\ last' = Req("sa_delete_commit", del.nid, collections[del.k], "-", EmptyDoc, "-")
    /\ UNCHANGED <<negocios, now, deleted, resp, archivos>>

\* await db.collection('negocios').doc(negocioID).delete(); res.json
DelDoc ==
    /\ del.pc = "deldoc"
    /\ negocios' = Without(negocios, {del.nid})
    /\ deleted' = deleted \cup {del.nid}
    /\ last' = Req("sa_delete_done", del.nid, "-", "-", EmptyDoc, "-")
    /\ resp' = R(200, [success |-> TRUE])
    /\ del' = Idle
    /\ UNCHANGED <<sub, now, archivos>>

DelFailBorraNegocio ==
    /\ del.pc # "idle"
    /\ last' = Req("sa_delete_failed", del.nid, "-", "-", EmptyDoc, "-")
    /\ resp' = R(500, [error |-> "store error"])
    /\ del' = Idle
    /\ negocios' = Without(negocios, {del.nid})
    /\ UNCHANGED <<sub, now, deleted, archivos>>

\* A store call of the deletion rejects: the catch answers 500 and the
\* handler ends where it is.
DelFail ==
    /\ del.pc # "idle"
    /\ last' = Req("sa_delete_failed", del.nid, "-", "-", EmptyDoc, "-")
    /\ resp' = R(500, [error |-> "store error"])
    /\ del' = Idle
    /\ UNCHANGED <<negocios, sub, now, deleted, archivos>>

----------------------------------------------------------------------------
(* Login *)

\* negocioData.admin?.user === user && negocioData.admin?.pin === pin
CredencialesOk(data, user, pin) ==
    /\ "admin" \in DOMAIN data
    /\ "user" \in DOMAIN data.admin /\ data.admin.user = user
    /\ "pin" \in DOMAIN data.admin /\ data.admin.pin = pin

RespLoginDistinto(data, user, pin) ==
    IF "admin" \in DOMAIN data /\ "user" \in DOMAIN data.admin /\ data.admin.user = user
    THEN R(401, [error |-> "PIN incorrecto"])
    ELSE R(401, [error |-> "Usuario incorrecto"])

RespLoginInvalido(data, user, pin) ==
    R(401, [error |-> "Credenciales inválidas para este negocio"])

\* The response of POST /api/auth/login on the current store.
LoginResponse(user, pin, negocioID) ==
    IF user = <<>> \/ pin = "" \/ negocioID = ""
    THEN R(400, [error |-> "Faltan datos"])
    ELSE IF ~Exists(negocioID)
    THEN R(404, [error |-> "Negocio no encontrado"])
    ELSE IF CredencialesOk(negocios[negocioID], user, pin)
    THEN R(200, [success |-> TRUE, negocioID |-> negocioID,
                 nombre |-> negocios[negocioID].nombre])
    ELSE RespLoginInvalido(negocios[negocioID], user, pin)

Login(user, pin, negocioID) ==
    /\ last' = Req("login", negocioID, "-", "-", EmptyDoc, [user |-> user, pin |-> pin])
    /\ resp' = LoginResponse(user, pin, negocioID)
    /\ UNCHANGED <<negocios, sub, now, del, deleted, archivos>>

----------------------------------------------------------------------------
(* Tenant configuration and sections *)

RespNegocio404 == R(404, [error |-> "Negocio no encontrado"])

GetConfig(negocioID) ==
    /\ last' = Req("get_config", negocioID, "-", "-", EmptyDoc, "-")
    /\ resp' = IF Exists(negocioID) THEN R(200, negocios[negocioID]) ELSE RespNegocio404
    /\ UNCHANGED <<negocios, sub, now, del, deleted, archivos>>

PutConfig(negocioID, datos) ==
    /\ last' = Req("put_config", negocioID, "-", "-", datos, "-")
    /\ UpdateNegocio(negocioID, datos,
                     [success |-> TRUE, message |-> "Configuración actualizada"])

GetSecciones(negocioID) ==
    /\ last' = Req("get_secciones", negocioID, "-", "-", EmptyDoc, "-")
    /\ resp' = IF ~Exists(negocioID) THEN RespNegocio404
               ELSE R(200, [secciones |->
                              IF "seccionesActivas" \in DOMAIN negocios[negocioID]
                              THEN negocios[negocioID].seccionesActivas
                              ELSE seccionesDefault])
    /\ UNCHANGED <<negocios, sub, now, del, deleted, archivos>>

PutSeccionesMerge(negocioID, body) ==
    /\ last' = Req("put_secciones", negocioID, "-", "-", body, "-")
    /\ IF "secciones" \notin DOMAIN body
       THEN /\ resp' = RespUndefinedValue
            /\ UNCHANGED <<negocios, sub, now, del, deleted, archivos>>
       ELSE UpdateNegocio(negocioID,
               [seccionesActivas |->
                   IF Exists(negocioID) /\ "seccionesActivas" \in DOMAIN negocios[negocioID]
                   THEN LET old == negocios[negocioID].seccionesActivas
                        IN  [t \in DOMAIN old \cup DOMAIN body.secciones |->
                               IF t \in DOMAIN body.secciones THEN body.secciones[t]
                               ELSE old[t]]
                   ELSE body.secciones],
               [success |-> TRUE, message |-> "Secciones actualizadas"])

\* const { secciones } = req.body: a body without it makes the update
\* reject on the undefined value before anything is sent.
PutSecciones(negocioID, body) ==
    /\ last' = Req("put_secciones", negocioID, "-", "-", body, "-")
    /\ IF "secciones" \notin DOMAIN body
       THEN /\ resp' = RespUndefinedValue
            /\ UNCHANGED <<negocios, sub, now, del, deleted, archivos>>
       ELSE UpdateNegocio(negocioID, [seccionesActivas |-> body.secciones],
                          [success |-> TRUE, message |-> "Secciones actualizadas"])

----------------------------------------------------------------------------
(* Nested resources: the six subcollections of a tenant *)

\* S as a sequence, ascending by key, ties by document ID.
RECURSIVE SortAsc(_, _)
SortAsc(S, key) ==
    IF S = {} THEN <<>>
    ELSE LET m == CHOOSE x \in S : \A y \in S :
                      \/ key[x] < key[y]
                      \/ key[x] = key[y] /\ Rank(DocIDs, x) <= Rank(DocIDs, y)
         IN  <<m>> \o SortAsc(S \ {m}, key)

Reverse(s) == [i \in 1..Len(s) |-> s[Len(s) + 1 - i]]

orderByUnsorted(docs, field) ==
    InOrder(DocIDs, {d \in DOMAIN docs : field \in DOMAIN docs[d]})

\* CollectionReference.orderBy(field, 'asc'): the documents that have the
\* field, ascending; a document without the field is not in the result.
orderBy(docs, field) ==
    LET S == {d \in DOMAIN docs : field \in DOMAIN docs[d]}
    IN  SortAsc(S, [d \in S |-> docs[d][field]])

\* The document IDs a list handler's query returns, in the query's order.
\* variant 2 is the second server, whose productos query filters on activo.
QueryIds(docs, kind, variant) ==
    IF kind \in OrdenKinds THEN orderBy(docs, "orden")
    ELSE IF kind = "pedidos" THEN Reverse(orderBy(docs, "fechaCreacion"))
    ELSE IF variant = 2
    THEN InOrder(DocIDs, {d \in DOMAIN docs : "activo" \in DOMAIN docs[d]
                                               /\ docs[d].activo = TRUE})
    ELSE InOrder(DocIDs, DOMAIN docs)

\* { id: doc.id, ...doc.data() }
Item(id, data) ==
    [f \in {"id"} \cup DOMAIN data |-> IF f \in DOMAIN data THEN data[f] ELSE id]

JsonKey(kind) ==
    CASE kind = "casosExito" -> "casos"
      [] kind = "galeria" -> "imagenes"
      [] OTHER -> kind

ListResources(negocioID, kind, variant) ==
    /\ last' = Req("list", negocioID, kind, "-", EmptyDoc, variant)
    /\ LET docs == Coleccion(negocioID, kind)
           ids  == QueryIds(docs, kind, variant)
       IN  resp' = R(200, [key |-> JsonKey(kind),
                           items |-> [i \in DOMAIN ids |-> Item(ids[i], docs[ids[i]])]])
    /\ UNCHANGED <<negocios, sub, now, del, deleted, archivos>>

\* The document a POST handler adds.
NuevoDocumento(kind, body, t) ==
    IF kind = "pedidos"
    THEN WithField(WithField(body, "estado", "pendiente"), "fechaCreacion", t)
    ELSE WithField(body, "createdAt", t)

\* CollectionReference.add: the store picks an ID not used in the collection.
CreateResource(negocioID, kind, body, id) ==
    /\ now < MaxTime
    /\ id \notin DOMAIN sub[negocioID][kind]
    /\ last' = Req("create", negocioID, kind, "-", body, "-")
    /\ sub' = [sub EXCEPT ![negocioID][kind] = Put(@, id, NuevoDocumento(kind, body, now))]
    /\ now' = now + 1
    /\ resp' = R(200, [success |-> TRUE, id |-> id])
    /\ UNCHANGED <<negocios, del, deleted, archivos>>

\* Express answers 404 for a method and path no route matches.
RespNoRoute == R(404, [error |-> "Cannot handle this method on this path"])

UpdateDataValidado(kind, datos) ==
    IF kind = "pedidos"
    THEN [estado |-> IF datos.estado \in {"pendiente", "confirmado", "cancelado"}
                     THEN datos.estado ELSE "pendiente"]
    ELSE datos

\* What a PUT handler passes to update(): the body, or { estado } for pedidos.
UpdateData(kind, datos) ==
    IF kind = "pedidos" THEN [estado |-> datos.estado] ELSE datos

UpdateResource(negocioID, kind, id, datos) ==
    /\ last' = Req("update", negocioID, kind, id, datos, "-")
    /\ IF kind = "galeria"
       THEN /\ resp' = RespNoRoute
            /\ UNCHANGED <<negocios, sub, now, del, deleted, archivos>>
       ELSE IF kind = "pedidos" /\ "estado" \notin DOMAIN datos
       THEN /\ resp' = RespUndefinedValue
            /\ UNCHANGED <<negocios, sub, now, del, deleted, archivos>>
       ELSE IF id \notin DOMAIN sub[negocioID][kind]
       THEN /\ resp' = RespNotFoundUpdate
            /\ UNCHANGED <<negocios, sub, now, del, deleted, archivos>>
       ELSE /\ now < MaxTime
            /\ sub' = [sub EXCEPT ![negocioID][kind][id] =
                           MergeFields(@, UpdateData(kind, datos), now)]
            /\ now' = now + 1
            /\ resp' = R(200, [success |-> TRUE])
            /\ UNCHANGED <<negocios, del, deleted, archivos>>

\* DocumentReference.delete succeeds whether or not the document exists.
RemoveResource(negocioID, kind, id) ==
    /\ last' = Req("remove", negocioID, kind, id, EmptyDoc, "-")
    /\ IF kind = "pedidos"
       THEN /\ resp' = RespNoRoute
            /\ sub' = sub
       ELSE /\ resp' = R(200, [success |-> TRUE])
            /\ sub' = [sub EXCEPT ![negocioID][kind] = Without(@, {id})]
    /\ UNCHANGED <<negocios, now, del, deleted, archivos>>

----------------------------------------------------------------------------
(* Images: the storage bucket *)

\* An image of the request body is a data URL: its image type (Undefined
\* without the 'data:image/<type>;base64,' prefix) and what follows the
\* prefix.  The empty string has neither.
ImagenVacia == [tipo |-> Undefined, base64 |-> ""]

\* `${negocioID}/${timestamp}-${nombre || 'imagen'}.${extension}`
FileName(negocioID, timestamp, nombre, extension) ==
    [negocioID |-> negocioID, timestamp |-> timestamp,
     nombre |-> nombre, extension |-> extension]

\* POST /api/:negocioID/upload-imagen; Date.now() is the clock.
UploadImagen(negocioID, body) ==
    /\ last' = Req("upload", negocioID, "-", "-", body, "-")
    /\ IF "imagen" \notin DOMAIN body \/ body.imagen = ImagenVacia
       THEN /\ resp' = R(400, [error |-> "No se proporcionó imagen"])
            /\ archivos' = archivos
       ELSE LET extension == IF body.imagen.tipo # Undefined THEN body.imagen.tipo ELSE "jpg"
                nombre == IF "nombre" \in DOMAIN body /\ body.nombre # ""
                          THEN body.nombre ELSE "imagen"
                fileName == FileName(negocioID, now, nombre, extension)
            IN  /\ archivos' = Put(archivos, fileName,
                                   [contentType |-> extension, negocioID |-> negocioID,
                                    buffer |-> body.imagen.base64])
                /\ resp' = R(200, [success |-> TRUE, url |-> fileName, fileName |-> fileName])
    /\ UNCHANGED <<negocios, sub, now, del, deleted>>

\* DELETE /api/:negocioID/delete-imagen: File.delete rejects when the
\* bucket has no such file, and the catch answers 500.
DeleteImagen(negocioID, body) ==
    /\ last' = Req("delete_imagen", negocioID, "-", "-", body, "-")
    /\ IF "fileName" \notin DOMAIN body
       THEN /\ resp' = R(400, [error |-> "No se proporcionó nombre de archivo"])
            /\ archivos' = archivos
       ELSE IF body.fileName \notin DOMAIN archivos
       THEN /\ resp' = R(500, [error |-> "No such object"])
            /\ archivos' = archivos
       ELSE /\ resp' = R(200, [success |-> TRUE, message |-> "Imagen eliminada"])
            /\ archivos' = Without(archivos, {body.fileName})
    /\ UNCHANGED <<negocios, sub, now, del, deleted>>

----------------------------------------------------------------------------
(* Requests *)

\* query, body and header key of a super admin request: one that passes the
\* guard (the body's key, the query's being empty) and two that do not.
Creds ==
    { [q |-> "", b |-> SUPER_ADMIN_KEY, h |-> "otra"],
      [q |-> Undefined, b |-> Undefined, h |-> Undefined],
      [q |-> "otra", b |-> Undefined, h |-> SUPER_ADMIN_KEY] }

Cafe == <<"C","a","f","é">>

Nombres == { Cafe, <<"¡","!">>, <<>> }

Emails == {"a@b.com", ""}

Pins == {"1000", "9999"}

PathIDs == Range(NegocioIDs)

Root == <<"r","o","o","t">>

NegocioDatos ==
    { [activo |-> FALSE],
      [admin |-> [user |-> Root, pin |-> "0000"]] }

SeccionesBodies == { [secciones |-> [hero |-> FALSE]], EmptyDoc }

LoginUsers == { <<"c","a","f">>, Root, <<>> }

LoginPins == {"1000", "0000", ""}

Bodies ==
    { [nombre |-> "a", orden |-> 2],
      [orden |-> 1, activo |-> TRUE],
      [id |-> "d2", estado |-> "enviado", createdAt |-> 0] }

\* Display names: one with a diacritic, one with capitals and a space, one
\* of twelve letters and digits, one without a letter or digit.
NombresUsuario ==
    { Cafe,
      <<"M","i"," ","T","i","e","n","d","a">>,
      <<"R","e","s","t","a","u","r","a","n","t","e","1">>,
      <<"¡","!">> }

\* Partial updates of a nested resource that name different fields.
DatosParciales == { [nombre |-> "b"], [precio |-> 5], [estado |-> "listo"] }

\* Upload bodies: a PNG data URL with a name, a bare base64 string without
\* one, a body without imagen, and an empty imagen.
UploadBodies ==
    { [imagen |-> [tipo |-> "png", base64 |-> "AAAA"], nombre |-> "logo"],
      [imagen |-> [tipo |-> Undefined, base64 |-> "AAAA"]],
      [nombre |-> "logo"],
      [imagen |-> ImagenVacia] }

\* Delete-image bodies: each file of the bucket, a file that was never
\* uploaded, and a body without fileName.
DeleteBodies ==
    { [fileName |-> f] : f \in DOMAIN archivos \cup {FileName("neg_a", 0, "imagen", "jpg")} }
       \cup {EmptyDoc}

----------------------------------------------------------------------------
(* Specifications *)

SinRecursos == [n \in PathIDs |-> [k \in Kinds |-> <<>>]]

\* An empty store.
Init ==
    /\ negocios = <<>>
    /\ sub = SinRecursos
    /\ archivos = <<>>
    /\ now = 1
    /\ del = Idle
    /\ deleted = {}
    /\ last = Req("none", "-", "-", "-", EmptyDoc, "-")
    /\ resp = R(0, EmptyDoc)

\* The store after one POST /api/super-admin/negocios, committed at time 0.
InitConNegocio ==
    /\ negocios = [n \in {"neg_a"} |->
                     NuevoNegocio(Cafe, "a@b.com", DeriveUser(Cafe, 0), "1000", 0)]
    /\ sub = SinRecursos
    /\ archivos = <<>>
    /\ now = 1
    /\ del = Idle
    /\ deleted = {}
    /\ last = Req("none", "-", "-", "-", EmptyDoc, "-")
    /\ resp = R(0, EmptyDoc)

\* The store calls of a running deletion.
DelStep == DelGet \/ DelCommit \/ DelDoc \/ DelFail

\* The whole server: every route with every request of the sets above, a
\* deletion interleaved with the other requests.  The specifications that
\* follow are its parts.
Next ==
    \/ \E c \in Creds : SA_List(c)
    \/ \E c \in Creds, nom \in Nombres, e \in Emails, n \in PathIDs, p \in Pins :
          SA_Create(c, nom, e, n, p)
    \/ \E c \in Creds, n \in PathIDs, d \in NegocioDatos : SA_Update(c, n, d)
    \/ \E c \in Creds, n \in PathIDs : SA_DeleteStart(c, n)
    \/ DelStep
    \/ \E u \in LoginUsers, p \in LoginPins, n \in PathIDs \cup {""} : Login(u, p, n)
    \/ \E n \in PathIDs : GetConfig(n)
    \/ \E n \in PathIDs, d \in NegocioDatos : PutConfig(n, d)
    \/ \E n \in PathIDs : GetSecciones(n)
    \/ \E n \in PathIDs, b \in SeccionesBodies : PutSecciones(n, b)
    \/ \E n \in PathIDs, k \in Kinds, v \in {1, 2} : ListResources(n, k, v)
    \/ \E n \in PathIDs, k \in Kinds, b \in Bodies, id \in Range(DocIDs) :
          CreateResource(n, k, b, id)
    \/ \E n \in PathIDs, k \in Kinds, id \in Range(DocIDs), d \in Bodies :
          UpdateResource(n, k, id, d)
    \/ \E n \in PathIDs, k \in Kinds, id \in Range(DocIDs) : RemoveResource(n, k, id)
    \/ \E n \in PathIDs, b \in UploadBodies : UploadImagen(n, b)
    \/ \E n \in PathIDs, b \in DeleteBodies : DeleteImagen(n, b)

Spec == Init /\ [][Next]_vars

\* The tenant store: super admin routes and login, a deletion running alone.
NextAuth ==
    \/ /\ del.pc = "idle"
       /\ \/ \E c \in Creds : SA_List(c)
          \/ \E c \in Creds, nom \in Nombres, e \in Emails, n \in PathIDs, p \in Pins :
                SA_Create(c, nom, e, n, p)
          \/ \E c \in Creds, n \in PathIDs, d \in NegocioDatos : SA_Update(c, n, d)
          \/ \E c \in Creds, n \in PathIDs : SA_DeleteStart(c, n)
          \/ \E u \in LoginUsers, p \in LoginPins, n \in PathIDs \cup {""} : Login(u, p, n)
    \/ DelStep

SpecAuth == Init /\ [][NextAuth]_vars

\* The two servers differ in the productos list alone.
Variants(kind) == IF kind = "productos" THEN {1, 2} ELSE {1}

\* The nested resources of one tenant: list, create, and update of the
\* documents there are.
NextRecursos ==
    \/ \E k \in Kinds : \E v \in Variants(k) : ListResources("neg_a", k, v)
    \/ \E k \in Kinds, b \in Bodies, id \in Range(DocIDs) :
          CreateResource("neg_a", k, b, id)
    \/ \E k \in Kinds, d \in Bodies : \E id \in DOMAIN sub["neg_a"][k] :
          UpdateResource("neg_a", k, id, d)

SpecRecursos == InitConNegocio /\ [][NextRecursos]_vars

BodiesCiclo == { [nombre |-> "a", orden |-> 2, estado |-> "enviado"] }

CredOk == [q |-> "", b |-> SUPER_ADMIN_KEY, h |-> "otra"]

\* The life of one tenant: it is created and deleted by the super admin,
\* a deletion running alone, and its routes are called before, between and
\* after.
NextCiclo ==
    \/ /\ del.pc = "idle"
       /\ \/ SA_Create(CredOk, Cafe, "a@b.com", "neg_a", "1000")
          \/ SA_DeleteStart(CredOk, "neg_a")
          \/ GetConfig("neg_a")
          \/ \E k \in Kinds : \E v \in Variants(k) : ListResources("neg_a", k, v)
          \/ \E k \in Kinds, b \in BodiesCiclo, id \in Range(DocIDs) :
                CreateResource("neg_a", k, b, id)
          \/ \E k \in Kinds, id \in Range(DocIDs), d \in BodiesCiclo :
                UpdateResource("neg_a", k, id, d)
          \/ \E k \in Kinds, id \in Range(DocIDs) : RemoveResource("neg_a", k, id)
    \/ DelStep

SpecCiclo == Init /\ [][NextCiclo]_vars

\* The store after two POST /api/super-admin/negocios, committed at time 0.
InitDosNegocios ==
    /\ negocios = [n \in PathIDs |->
                     NuevoNegocio(Cafe, "a@b.com", DeriveUser(Cafe, 0),
                                  IF n = "neg_a" THEN "1000" ELSE "9999", 0)]
    /\ sub = SinRecursos
    /\ archivos = <<>>
    /\ now = 1
    /\ del = Idle
    /\ deleted = {}
    /\ last = Req("none", "-", "-", "-", EmptyDoc, "-")
    /\ resp = R(0, EmptyDoc)

BodyDos == [nombre |-> "a", orden |-> 2, estado |-> "enviado", activo |-> TRUE]

DatosDos == [orden |-> 1, estado |-> "listo"]

\* The first unused document ID of a collection, if any.
FirstFree(docs) ==
    {d \in Range(DocIDs) \ DOMAIN docs :
        \A e \in Range(DocIDs) \ DOMAIN docs : Rank(DocIDs, d) <= Rank(DocIDs, e)}

\* Two tenants side by side: the tenant-scoped routes of both, with one
\* request body per route, a new document taking the first unused ID, and
\* update and remove addressing the documents there are.
NextDos ==
    \E n \in PathIDs :
        \/ GetConfig(n)
        \/ PutConfig(n, [activo |-> FALSE])
        \/ GetSecciones(n)
        \/ \E b \in SeccionesBodies : PutSecciones(n, b)
        \/ \E k \in Kinds : \E v \in Variants(k) : ListResources(n, k, v)
        \/ \E k \in Kinds : \E id \in FirstFree(sub[n][k]) : CreateResource(n, k, BodyDos, id)
        \/ \E k \in Kinds : \E id \in DOMAIN sub[n][k] : UpdateResource(n, k, id, DatosDos)
        \/ \E k \in Kinds : \E id \in DOMAIN sub[n][k] : RemoveResource(n, k, id)

SpecDos == InitDosNegocios /\ [][NextDos]_vars

\* The store after POST /api/super-admin/negocios and one POST each to
\* productos and pedidos of the new tenant, all committed at time 0.
InitConRecursos ==
    /\ negocios = [n \in {"neg_a"} |->
                     NuevoNegocio(Cafe, "a@b.com", DeriveUser(Cafe, 0), "1000", 0)]
    /\ sub = [SinRecursos EXCEPT
                !["neg_a"]["productos"] =
                    Put(<<>>, DocIDs[1], NuevoDocumento("productos", [nombre |-> "a"], 0)),
                !["neg_a"]["pedidos"] =
                    Put(<<>>, DocIDs[1], NuevoDocumento("pedidos", [nombre |-> "a"], 0))]
    /\ archivos = <<>>
    /\ now = 1
    /\ del = Idle
    /\ deleted = {}
    /\ last = Req("none", "-", "-", "-", EmptyDoc, "-")
    /\ resp = R(0, EmptyDoc)

\* The deletion of a tenant that holds resources, no other request running
\* while it runs: resources are created before and after.
NextBorrado ==
    \/ /\ del.pc = "idle"
       /\ \/ SA_DeleteStart(CredOk, "neg_a")
          \/ GetConfig("neg_a")
          \/ \E k \in Kinds : \E id \in FirstFree(sub["neg_a"][k]) :
                CreateResource("neg_a", k, [nombre |-> "a"], id)
    \/ DelStep

SpecBorrado == InitConRecursos /\ [][NextBorrado]_vars

\* The deletion of a tenant with requests that create resources arriving
\* between its store calls.
NextConcurrente ==
    \/ SA_DeleteStart(CredOk, "neg_a")
    \/ DelStep
    \/ \E k \in Kinds : \E id \in FirstFree(sub["neg_a"][k]) :
          CreateResource("neg_a", k, [nombre |-> "a"], id)

SpecConcurrente == InitConRecursos /\ [][NextConcurrente]_vars

\* The tenant documents of two tenants: the public configuration and
\* sections routes, the super admin update and login.
NextConfig ==
    \/ \E n \in PathIDs : GetConfig(n)
    \/ \E n \in PathIDs, d \in NegocioDatos : PutConfig(n, d)
    \/ \E c \in Creds, n \in PathIDs, d \in NegocioDatos : SA_Update(c, n, d)
    \/ \E n \in PathIDs : GetSecciones(n)
    \/ \E n \in PathIDs, b \in SeccionesBodies : PutSecciones(n, b)
    \/ \E u \in LoginUsers, p \in LoginPins, n \in PathIDs : Login(u, p, n)

SpecConfig == InitDosNegocios /\ [][NextConfig]_vars

\* The routes that check their request for required fields: creation of
\* one tenant, login, and the two image routes.
NextEntrada ==
    \/ \E c \in Creds, nom \in Nombres, e \in Emails :
          SA_Create(c, nom, e, "neg_a", "1000")
    \/ \E u \in LoginUsers, p \in LoginPins, n \in PathIDs \cup {""} : Login(u, p, n)
    \/ \E b \in UploadBodies : UploadImagen("neg_a", b)
    \/ \E b \in DeleteBodies : DeleteImagen("neg_a", b)

SpecEntrada == Init /\ [][NextEntrada]_vars

\* The creation of tenants from the display names, with a key that passes.
NextUsuario ==
    \E nom \in NombresUsuario, n \in PathIDs, p \in Pins :
        SA_Create(CredOk, nom, "a@b.com", n, p)

SpecUsuario == Init /\ [][NextUsuario]_vars

\* Requests that update the same documents, each store call atomic, in
\* every order: the tenant document and the two resources of a tenant.
NextSimultaneo ==
    \/ \E d \in NegocioDatos : PutConfig("neg_a", d)
    \/ \E k \in {"productos", "pedidos"}, d \in DatosParciales :
          UpdateResource("neg_a", k, DocIDs[1], d)
    \/ GetConfig("neg_a")
    \/ \E k \in {"productos", "pedidos"} : ListResources("neg_a", k, 1)

SpecSimultaneo == InitConRecursos /\ [][NextSimultaneo]_vars

\* The two image routes under the paths of two tenants.
NextImagenes ==
    \/ \E n \in PathIDs, b \in UploadBodies : UploadImagen(n, b)
    \/ \E n \in PathIDs, b \in DeleteBodies : DeleteImagen(n, b)

SpecImagenes == Init /\ [][NextImagenes]_vars

----------------------------------------------------------------------------
(* The super admin guard *)

\* The steps that are a request to a super admin route arriving.
SuperAdminOps == {"sa_list", "sa_create", "sa_update", "sa_delete"}

\* C1: a request to a super admin route (list, create, update, delete)
\* whose supplied key is absent or is not the process-wide secret is
\* answered 401 and leaves the document store, the clock and the deletion
\* handler untouched; a request is answered by the handler (anything but
\* 401) only when its key is the secret.
C1_SuperAdminFailsClosed ==
    [][ last'.op \in SuperAdminOps =>
          IF SuppliedKey(last'.cred) = SUPER_ADMIN_KEY
          THEN resp'.status # 401
          ELSE /\ resp' = Resp401
               /\ UNCHANGED <<negocios, sub, now, del, deleted>> ]_vars

\* A delete of an existing tenant refused although the header carries the
\* secret: the query's key comes first and is wrong.
C1_Witness ==
    /\ last.op = "sa_delete"
    /\ last.cred.h = SUPER_ADMIN_KEY
    /\ resp = Resp401
    /\ Exists(last.nid)

----------------------------------------------------------------------------
(* Login *)

StoredMatch(data, user, pin) ==
    /\ "admin" \in DOMAIN data
    /\ "user" \in DOMAIN data.admin /\ data.admin.user = user
    /\ "pin" \in DOMAIN data.admin /\ data.admin.pin = pin

\* C2: a login succeeds if and only if the tenant exists, its stored admin
\* user and pin equal the supplied ones, and its activo flag is true.
C2_LoginIffMatchAndActive ==
    last.op = "login" =>
        (resp.status = 200 <=>
            /\ Exists(last.nid)
            /\ StoredMatch(negocios[last.nid], last.cred.user, last.cred.pin)
            /\ "activo" \in DOMAIN negocios[last.nid]
            /\ negocios[last.nid].activo = TRUE)

\* C3: on an existing tenant every login that fails on its credentials gets
\* one and the same response, whichever of user and pin did not match: the
\* response just sent for a mismatch is the response of every other
\* mismatching pair.
C3_LoginFailuresIndistinguishable ==
    (/\ last.op = "login"
     /\ Exists(last.nid)
     /\ last.cred.user # <<>> /\ last.cred.pin # ""
     /\ ~StoredMatch(negocios[last.nid], last.cred.user, last.cred.pin))
    => /\ resp.status = 401
       /\ \A u \in LoginUsers \ {<<>>}, p \in LoginPins \ {""} :
             ~StoredMatch(negocios[last.nid], u, p)
                => LoginResponse(u, p, last.nid) = resp

\* A login refused with the right user and a wrong pin, on a tenant for
\* which a wrong user with the right pin is among the requests compared.
C3_Witness ==
    /\ last.op = "login"
    /\ Exists(last.nid)
    /\ resp.status = 401
    /\ negocios[last.nid].admin.user = last.cred.user
    /\ negocios[last.nid].admin.pin # last.cred.pin
    /\ negocios[last.nid].admin.pin \in LoginPins

----------------------------------------------------------------------------
(* Tenant IDs *)

\* C6: every successful creation of a tenant assigns an ID that no existing
\* tenant document has, so it never overwrites an existing tenant.
C6_CreateAssignsFreshID ==
    [][ (last'.op = "sa_create" /\ resp'.status = 200)
          => resp'.body.negocioID \notin DOMAIN negocios ]_vars

----------------------------------------------------------------------------
(* Nested resources: update, create and list *)

\* C7: a successful update of an existing nested resource changes only the
\* fields the request names and updatedAt, which becomes the commit time;
\* every other stored field of the resource keeps its value, and every
\* other resource and every tenant document is left as it was.
C7_UpdateChangesOnlyNamedFields ==
    [][ (last'.op = "update" /\ resp'.status = 200) =>
          LET n == last'.nid
              k == last'.kind
              id == last'.id
              datos == last'.datos
              old == sub[n][k][id]
              new == sub'[n][k][id]
          IN  /\ id \in DOMAIN sub[n][k]
              /\ \A f \in DOMAIN old \ (DOMAIN datos \cup {"updatedAt"}) :
                    f \in DOMAIN new /\ new[f] = old[f]
              /\ DOMAIN new \subseteq DOMAIN old \cup DOMAIN datos \cup {"updatedAt"}
              /\ new.updatedAt = now
              /\ \A n2 \in PathIDs, k2 \in Kinds :
                    /\ DOMAIN sub'[n2][k2] = DOMAIN sub[n2][k2]
                    /\ \A d \in DOMAIN sub[n2][k2] :
                          <<n2, k2, d>> # <<n, k, id>> => sub'[n2][k2][d] = sub[n2][k2][d]
              /\ negocios' = negocios ]_vars

\* An update went through on a resource that holds a field the request
\* did not name.
C7_Witness ==
    /\ last.op = "update"
    /\ resp.status = 200
    /\ "nombre" \in DOMAIN sub[last.nid][last.kind][last.id]
    /\ "nombre" \notin DOMAIN last.datos

Occurrences(seq, x) == {i \in DOMAIN seq : seq[i] = x}

TsField(kind) == IF kind = "pedidos" THEN "fechaCreacion" ELSE "createdAt"

\* C8 as stated: after create(tenant, kind, F) returns id, a following list
\* of that kind holds exactly one item for id, and the item holds exactly
\* the fields of F with the supplied values plus id and the creation
\* timestamp.
C8_CreateListRoundTrip ==
    [][ (last'.op = "create" /\ resp'.status = 200) =>
          LET k == last'.kind
              F == last'.datos
              id == resp'.body.id
              docs == sub'[last'.nid][k]
              item == Item(id, docs[id])
          IN  \A v \in Variants(k) :
                 /\ Cardinality(Occurrences(QueryIds(docs, k, v), id)) = 1
                 /\ DOMAIN item = DOMAIN F \cup {"id", TsField(k)}
                 /\ \A f \in DOMAIN F : item[f] = F[f]
                 /\ item.id = id
                 /\ item[TsField(k)] = now ]_vars


\* C9: the list of servicios, testimonios, casosExito and galeria is in
\* non-decreasing order of orden and the list of pedidos in non-increasing
\* order of fechaCreacion; the list holds each document that has the
\* ordering field once.
C9_ListOrdering ==
    (last.op = "list" /\ last.kind \in OrdenKinds \cup {"pedidos"}) =>
        LET items == resp.body.items
            docs == sub[last.nid][last.kind]
            field == IF last.kind = "pedidos" THEN "fechaCreacion" ELSE "orden"
            has == {d \in DOMAIN docs : field \in DOMAIN docs[d]}
        IN  /\ \A i, j \in DOMAIN items :
                  i < j => IF last.kind = "pedidos"
                           THEN items[i].fechaCreacion >= items[j].fechaCreacion
                           ELSE items[i].orden <= items[j].orden
            /\ Len(items) = Cardinality(has)
            /\ \A d \in has : \E i \in DOMAIN items : items[i] = Item(d, docs[d])

\* Two documents listed by orden against the order of their creation.
C9_Witness ==
    /\ last.op = "list"
    /\ last.kind \in OrdenKinds
    /\ Len(resp.body.items) = 2
    /\ resp.body.items[1].orden < resp.body.items[2].orden
    /\ resp.body.items[1].createdAt > resp.body.items[2].createdAt

----------------------------------------------------------------------------
(* Tenants and their resources *)

TenantScopedOps == {"get_config", "list", "create", "update", "remove"}

\* C4: a request for the configuration or for a nested resource of a tenant
\* that deleteTenant has removed is answered 404 and writes nothing.
C4_DeletedTenantNotFound ==
    [][ (last'.op \in TenantScopedOps /\ last'.nid \in deleted) =>
          (resp'.status = 404 /\ sub' = sub /\ negocios' = negocios) ]_vars

\* C10: an update of a nested document that does not exist, or under a
\* tenant that does not exist, is answered 404 and writes nothing.
C10_UpdateMissingIs404 ==
    [][ (/\ last'.op = "update"
         /\ \/ last'.id \notin DOMAIN sub[last'.nid][last'.kind]
            \/ ~Exists(last'.nid)) =>
          (resp'.status = 404 /\ sub' = sub /\ negocios' = negocios) ]_vars

PathOps == TenantScopedOps \cup {"put_config", "get_secciones", "put_secciones"}

\* C5: a request whose path names tenant A leaves the tenant document and
\* the nested resources of every other tenant as they were, and every item
\* a list of A returns is a document stored under A.
C5_TenantIsolation ==
    [][ last'.op \in PathOps =>
          LET a == last'.nid
          IN  /\ \A b \in PathIDs \ {a} :
                    /\ sub'[b] = sub[b]
                    /\ Exists(b) <=> b \in DOMAIN negocios'
                    /\ Exists(b) => negocios'[b] = negocios[b]
              /\ last'.op = "list" =>
                    \A i \in DOMAIN resp'.body.items :
                       \E d \in DOMAIN sub[a][last'.kind] :
                          resp'.body.items[i] = Item(d, sub[a][last'.kind][d]) ]_vars

\* A list of one tenant answered while another tenant holds different
\* documents of the same kind.
C5_Witness ==
    /\ last.op = "list"
    /\ Len(resp.body.items) >= 1
    /\ \E b \in PathIDs \ {last.nid} :
          /\ sub[b][last.kind] # <<>>
          /\ sub[b][last.kind] # sub[last.nid][last.kind]

----------------------------------------------------------------------------
(* Nested resources: remove *)

\* The subcollections that have a DELETE route.
RemoveKinds == Kinds \ {"pedidos"}

RespRemoved == R(200, [success |-> TRUE])

----------------------------------------------------------------------------
(* Tenant deletion *)

\* The subcollections of a tenant are all empty.
SinDocumentos(n) == \A k \in Kinds : sub[n][k] = <<>>

\* C12: the tenant document is deleted last: a tenant document goes away
\* only in the step of a deletion that follows the committed batch of the
\* sixth kind, and, no other request running meanwhile, a deletion that
\* answers success leaves neither the tenant document nor a document in any
\* of its six subcollections.
C12_TenantDocumentDeletedLast ==
    [][ /\ (\E n \in DOMAIN negocios : n \notin DOMAIN negocios') =>
              /\ last'.op = "sa_delete_done"
              /\ last.op = "sa_delete_commit" /\ last.kind = collections[Len(collections)]
              /\ del.k = Len(collections)
              /\ DOMAIN negocios \ DOMAIN negocios' = {last'.nid}
        /\ last'.op = "sa_delete_done" =>
              /\ resp'.status = 200
              /\ last'.nid \notin DOMAIN negocios'
              /\ \A k \in Kinds : sub'[last'.nid][k] = <<>> ]_vars

\* A deletion has answered success: the tenant and the documents it held in
\* productos and pedidos are gone.
C12_Witness ==
    /\ last.op = "sa_delete_done"
    /\ resp.status = 200
    /\ last.nid \in deleted
    /\ ~Exists(last.nid)
    /\ SinDocumentos(last.nid)

\* The steps of a deletion short of its last one.
DelOps == {"sa_delete_get", "sa_delete_commit", "sa_delete_failed"}

\* C13: when a store call of a deletion fails at the k-th kind, the handler
\* ends with 500 and writes nothing more: the tenant document is as it was
\* (it still exists when no deletion removed it before), the kinds before k
\* are empty, and no step of the deletion up to there has touched a kind
\* after k.
C13_FailureLeavesPartialDeletion ==
    [][ /\ last'.op = "sa_delete_failed" =>
              /\ resp'.status = 500
              /\ del'.pc = "idle"
              /\ negocios' = negocios /\ sub' = sub
              /\ last'.nid \notin deleted => last'.nid \in DOMAIN negocios'
              /\ \A j \in DOMAIN collections :
                    j < del.k => sub'[last'.nid][collections[j]] = <<>>
        /\ last'.op \in DelOps =>
              /\ negocios' = negocios
              /\ \A n \in PathIDs, j \in DOMAIN collections :
                    (n # del.nid \/ j # del.k \/ last'.op # "sa_delete_commit")
                       => sub'[n][collections[j]] = sub[n][collections[j]] ]_vars

\* A deletion failed after the batch of productos and before that of
\* pedidos: the tenant is there, without products and with its orders.
C13_Witness ==
    /\ last.op = "sa_delete_failed"
    /\ resp.status = 500
    /\ Exists(last.nid)
    /\ sub[last.nid]["productos"] = <<>>
    /\ sub[last.nid]["pedidos"] # <<>>

\* C19: whatever requests that create resources run between the store
\* calls of a deletion, when the deletion answers success no document is
\* left in any of the six subcollections of the tenant.
C19_NoOrphanAfterConcurrentDelete ==
    (last.op = "sa_delete_done" /\ resp.status = 200)
        => \A k \in Kinds : DOMAIN sub[last.nid][k] = {}

----------------------------------------------------------------------------
(* The tenant document *)

\* Every tenant document but that of n, and every nested resource, is as
\* it was.
SoloNegocio(n) ==
    /\ DOMAIN negocios' = DOMAIN negocios
    /\ \A b \in DOMAIN negocios \ {n} : negocios'[b] = negocios[b]
    /\ sub' = sub

\* C14: after a successful update of the active sections the stored map is
\* the supplied map, a toggle the supplied map does not name being gone,
\* and no other field of the tenant document changes but updatedAt, which
\* is the commit time.
C14_SeccionesReplaced ==
    [][ (last'.op = "put_secciones" /\ resp'.status = 200) =>
          LET n == last'.nid
              old == negocios[n]
              new == negocios'[n]
          IN  /\ new.seccionesActivas = last'.datos.secciones
              /\ DOMAIN new = DOMAIN old \cup {"seccionesActivas", "updatedAt"}
              /\ \A f \in DOMAIN old \ {"seccionesActivas", "updatedAt"} : new[f] = old[f]
              /\ new.updatedAt = now
              /\ SoloNegocio(n) ]_vars

\* The sections were updated with a map that names hero alone: the toggle
\* of servicios the tenant was created with is gone.
C14_Witness ==
    /\ last.op = "put_secciones"
    /\ resp.status = 200
    /\ DOMAIN last.datos.secciones = {"hero"}
    /\ "servicios" \notin DOMAIN negocios[last.nid].seccionesActivas
    /\ negocios[last.nid].nombre = Cafe

ConfigOps == {"put_config", "sa_update"}

\* C15: after a successful update of the tenant configuration, by the
\* tenant route or by the super admin route, every field the request names
\* holds the supplied value, whatever the field (admin and activo
\* included), and every other field of the tenant document but updatedAt
\* holds the value it had.
C15_ConfigMerged ==
    [][ (last'.op \in ConfigOps /\ resp'.status = 200) =>
          LET n == last'.nid
              datos == last'.datos
              old == negocios[n]
              new == negocios'[n]
          IN  /\ \A f \in DOMAIN datos \ {"updatedAt"} : new[f] = datos[f]
              /\ \A f \in DOMAIN old \ (DOMAIN datos \cup {"updatedAt"}) : new[f] = old[f]
              /\ DOMAIN new = DOMAIN old \cup DOMAIN datos \cup {"updatedAt"}
              /\ new.updatedAt = now
              /\ SoloNegocio(n) ]_vars

\* The tenant route has replaced the admin credentials of a tenant, whose
\* name is the one it was created with.
C15_Witness ==
    /\ last.op = "put_config"
    /\ resp.status = 200
    /\ "admin" \in DOMAIN last.datos
    /\ negocios[last.nid].admin = last.datos.admin
    /\ negocios[last.nid].admin.user = Root
    /\ negocios[last.nid].nombre = Cafe

----------------------------------------------------------------------------
(* Orders *)

\* C16: an order just created has estado 'pendiente' whatever the request
\* body said; the estado of a stored order changes only in a PUT to that
\* order, and a successful PUT stores the estado supplied, whatever string
\* it is.
C16_EstadoPedido ==
    [][ /\ (last'.op = "create" /\ last'.kind = "pedidos" /\ resp'.status = 200) =>
              sub'[last'.nid]["pedidos"][resp'.body.id].estado = "pendiente"
        /\ \A n \in PathIDs : \A d \in DOMAIN sub[n]["pedidos"] \cap DOMAIN sub'[n]["pedidos"] :
              sub'[n]["pedidos"][d].estado # sub[n]["pedidos"][d].estado =>
                 /\ last'.op = "update" /\ last'.kind = "pedidos"
                 /\ last'.nid = n /\ last'.id = d
        /\ (last'.op = "update" /\ last'.kind = "pedidos" /\ resp'.status = 200) =>
              sub'[last'.nid]["pedidos"][last'.id].estado = last'.datos.estado ]_vars

\* An order was created from a body that says estado 'enviado' and is
\* stored as 'pendiente'.
C16_Witness ==
    /\ last.op = "create"
    /\ last.kind = "pedidos"
    /\ resp.status = 200
    /\ "estado" \in DOMAIN last.datos /\ last.datos.estado = "enviado"
    /\ sub[last.nid]["pedidos"][resp.body.id].estado = "pendiente"

----------------------------------------------------------------------------
(* Tenant creation *)

SeccionNames ==
    {"hero", "servicios", "nosotros", "casosExito", "testimonios", "galeria", "contacto"}

\* C17: when a creation of a tenant has answered success, the stored
\* document of the returned negocioID has activo true, briefCompletado
\* false, the seven section toggles all true, and the admin user and pin of
\* the response, and a login with the returned user, pin and negocioID is
\* answered success with that negocioID.
C17_CreateSeedsLoginableTenant ==
    (last.op = "sa_create" /\ resp.status = 200) =>
        LET id == resp.body.negocioID
            cred == resp.body.negocio
        IN  /\ Exists(id)
            /\ negocios[id].activo = TRUE
            /\ negocios[id].briefCompletado = FALSE
            /\ DOMAIN negocios[id].seccionesActivas = SeccionNames
            /\ \A t \in SeccionNames : negocios[id].seccionesActivas[t] = TRUE
            /\ negocios[id].admin.user = cred.user
            /\ negocios[id].admin.pin = cred.pin
            /\ cred.negocioID = id
            /\ LoginResponse(cred.user, cred.pin, id).status = 200
            /\ LoginResponse(cred.user, cred.pin, id).body.negocioID = id

\* A tenant was created from a name without a letter or digit: its user is
\* 'user' followed by the time.
C17_Witness ==
    /\ last.op = "sa_create"
    /\ resp.status = 200
    /\ Len(resp.body.negocio.user) > 4
    /\ SubSeq(resp.body.negocio.user, 1, 4) = <<"u", "s", "e", "r">>
    /\ negocios[resp.body.negocioID].admin.pin = resp.body.negocio.pin

----------------------------------------------------------------------------
(* Required fields *)

\* Nothing is stored, deleted or stamped.
NoWrite == UNCHANGED <<negocios, sub, archivos, now, del, deleted>>

\* C18: a request that lacks a required field is answered 400 and writes
\* nothing: a creation of a tenant without nombreNegocio or email, a login
\* without user, pin or negocioID (whether or not the tenant exists), an
\* upload without imagen and a delete-image without fileName.  On the
\* creation the key comes first: with a key that is not the secret the
\* answer is 401, fields missing or not.
C18_MissingFieldsRejected ==
    [][ /\ last'.op = "sa_create" =>
              IF SuppliedKey(last'.cred) # SUPER_ADMIN_KEY
              THEN resp' = Resp401 /\ NoWrite
              ELSE (last'.datos.nombreNegocio = <<>> \/ last'.datos.email = "")
                      => (resp'.status = 400 /\ NoWrite)
        /\ (/\ last'.op = "login"
            /\ (last'.cred.user = <<>> \/ last'.cred.pin = "" \/ last'.nid = ""))
              => (resp'.status = 400 /\ NoWrite)
        /\ (/\ last'.op = "upload"
            /\ ("imagen" \notin DOMAIN last'.datos \/ last'.datos.imagen = ImagenVacia))
              => (resp'.status = 400 /\ NoWrite)
        /\ (last'.op = "delete_imagen" /\ "fileName" \notin DOMAIN last'.datos)
              => (resp'.status = 400 /\ NoWrite) ]_vars

\* A creation with a wrong key and without email was answered 401, a tenant
\* and an uploaded file being there.
C18_Witness ==
    /\ last.op = "sa_create"
    /\ last.datos.email = ""
    /\ SuppliedKey(last.cred) # SUPER_ADMIN_KEY
    /\ resp = Resp401
    /\ DOMAIN negocios # {}
    /\ DOMAIN archivos # {}

----------------------------------------------------------------------------
(* The admin username *)

AsciiAlnum == Range(LOWER) \cup Range(UPPER) \cup Range(DIGITS)

\* Letters that carry a diacritic.
Diacritics == {"é", "É"}

Min(a, b) == IF a < b THEN a ELSE b

\* C20 as stated: the username of a created tenant is not empty and not
\* longer than 10 characters, and a letter with a diacritic is kept as its
\* base letter: the username has a character for each letter and digit of
\* the display name, with or without diacritic, up to the cap.
C20_UsernameFromName ==
    [][ (last'.op = "sa_create" /\ resp'.status = 200) =>
          LET nom == last'.datos.nombreNegocio
              user == resp'.body.negocio.user
              letters == SelectSeq(nom, LAMBDA c : c \in AsciiAlnum \cup Diacritics)
          IN  /\ Len(user) >= 1
              /\ Len(user) <= 10
              /\ Len(user) >= Min(10, Len(letters)) ]_vars

\* C20 amended: the username of a created tenant is the display name
\* without every character that is not an unaccented letter or a digit
\* (a letter with a diacritic is dropped, nothing is put in its place),
\* capitals lowered, cut to its first 10 characters; when nothing is left
\* it is 'user' followed by the thirteen digits of the time in
\* milliseconds.  It is never empty, and never longer than 10 characters
\* unless it is that fallback.
C20_UsernameAsDerived ==
    [][ (last'.op = "sa_create" /\ resp'.status = 200) =>
          LET nom == last'.datos.nombreNegocio
              user == resp'.body.negocio.user
              kept == SelectSeq(nom, LAMBDA c : c \in AsciiAlnum)
          IN  /\ user # <<>>
              /\ \A i \in DOMAIN user : user[i] \in Range(LOWER) \cup Range(DIGITS)
              /\ IF kept # <<>>
                 THEN /\ Len(user) = Min(10, Len(kept))
                      /\ \A i \in DOMAIN user :
                            \/ user[i] = kept[i]
                            \/ /\ kept[i] \in Range(UPPER)
                               /\ Rank(LOWER, user[i]) = Rank(UPPER, kept[i])
                 ELSE /\ Len(user) = 17
                      /\ SubSeq(user, 1, 4) = <<"u", "s", "e", "r">>
                      /\ \A i \in 5..17 : user[i] \in Range(DIGITS) ]_vars

\* A tenant was created from a name of twelve letters and digits: its
\* username is the first ten, lowered.
C20_Witness ==
    /\ last.op = "sa_create"
    /\ resp.status = 200
    /\ Len(last.datos.nombreNegocio) = 12
    /\ resp.body.negocio.user = <<"r","e","s","t","a","u","r","a","n","t">>

----------------------------------------------------------------------------
(* Updates of one document by several requests *)

MergeOps == {"update", "put_config"}

\* The fields a request hands to update(), updatedAt apart.
Written(req) ==
    IF req.op = "update" THEN UpdateData(req.kind, req.datos) ELSE req.datos

\* The document a request addresses.
Target(req) ==
    IF req.op = "update" THEN sub[req.nid][req.kind][req.id] ELSE negocios[req.nid]

\* C21: when two updates of the same nested resource, or of the same tenant
\* configuration, that name disjoint fields have both succeeded one after
\* the other, in either order, the document holds the values of both.
C21_DisjointUpdatesBothApply ==
    [][ (/\ last.op \in MergeOps /\ resp.status = 200
         /\ last'.op = last.op /\ resp'.status = 200
         /\ last'.nid = last.nid /\ last'.kind = last.kind /\ last'.id = last.id
         /\ DOMAIN Written(last) \cap DOMAIN Written(last') = {})
        => /\ \A f \in DOMAIN Written(last) \ {"updatedAt"} :
                 f \in DOMAIN Target(last)' /\ Target(last)'[f] = Written(last)[f]
           /\ \A f \in DOMAIN Written(last') \ {"updatedAt"} :
                 f \in DOMAIN Target(last)' /\ Target(last)'[f] = Written(last')[f] ]_vars

\* The product created with the name 'a' holds the name of one update and
\* the price of another.
C21_Witness ==
    /\ last.op = "update"
    /\ resp.status = 200
    /\ last.kind = "productos"
    /\ "precio" \in DOMAIN sub[last.nid]["productos"][last.id]
    /\ sub[last.nid]["productos"][last.id].nombre = "b"

----------------------------------------------------------------------------
(* The id of a listed item *)

\* C22: every item a list returns carries as id the document ID of the
\* document it was made from, whatever fields the document holds.
C22_ItemIdIsDocumentID ==
    last.op = "list" =>
        LET ids == QueryIds(sub[last.nid][last.kind], last.kind, last.cred)
        IN  /\ Len(resp.body.items) = Len(ids)
            /\ \A i \in DOMAIN ids : resp.body.items[i].id = ids[i]

----------------------------------------------------------------------------
(* Images *)

ImageOps == {"upload", "delete_imagen"}

\* C23: an upload or a delete-image under the path of tenant A creates,
\* replaces or deletes only files whose name starts with A's ID.
C23_ImagesTenantScoped ==
    [][ last'.op \in ImageOps =>
          \A f \in DOMAIN archivos \cup DOMAIN archivos' :
             (\/ f \notin DOMAIN archivos
              \/ f \notin DOMAIN archivos'
              \/ archivos'[f] # archivos[f])
                => f.negocioID = last'.nid ]_vars

====
